---- MODULE Spec2Model ----
(***************************************************************************)
(* The session and transaction orchestration of the time-locked wallet     *)
(* front end (src/src/App.jsx): the React state of App, every async        *)
(* handler as a process that is suspended at each await, the wallet        *)
(* provider and the contract as the environment.                           *)
(*                                                                         *)
(* A handler is a closure over the render in which it was created: the     *)
(* state it reads (unlockTime, the form fields) is the state at the time   *)
(* it was invoked, also after an await.  The task record keeps those       *)
(* captured values.  The form fields are written only by onChange (and     *)
(* line 176); a handler reads its field on entry, so the entered text is   *)
(* an input of the action that invokes the handler.                        *)
(***************************************************************************)
EXTENDS Integers, Sequences, FiniteSets, TLC

\* ---------------------------------------------------------------- bounds
\* Handler invocations (tasks) in one behaviour.
MaxOps == 2
\* Page reloads (chainChanged notifications) in one behaviour.
MaxReloads == 1
\* The clock (unix seconds, Math.floor(Date.now() / 1000)) of a behaviour:
\* every handler of one behaviour reads the same second.
StartTime == 1000

\* ------------------------------------------------------- program constants
SEPOLIA_CHAIN_ID == "0xaa36a7"

\* ----------------------------------------------------------------- inputs
\* Text typed into the amount fields (depositAmount, withdrawAmount): empty,
\* not a number, negative, valid, valid in exponent notation.
AmountInputs == {"", "abc", "-1", "1", "1e2"}
\* Text typed into the duration field (lockDurationValue): empty, infinite,
\* negative, zero, valid.
DurationInputs == {"", "Infinity", "-1", "0", "1"}
\* The options of the unit select (lockDurationUnit), and those submitted.
Units == {"seconds", "minutes", "hours", "days"}
SubmittedUnits == {"minutes", "hours"}
\* Positive durations, submitted with every unit where the conversion is
\* examined.
PositiveDurations == {"1", "2", "3"}
\* Account lists the wallet provider may return or announce.
AccountLists == {<<>>, <<"0xA">>, <<"0xB", "0xA">>}
\* Chain ids the wallet provider may report.
ChainIds == {SEPOLIA_CHAIN_ID, "0x1"}
\* Errors a provider or contract call may reject with (err.reason, err.message).
Errors ==
  { [reason |-> "Funds are still locked", message |-> "execution reverted"],
    [reason |-> "", message |-> "user rejected action"],
    [reason |-> "", message |-> ""] }
NoProviderError == [reason |-> "", message |-> "MetaMask not found"]
InvalidValueError == [reason |-> "", message |-> "invalid value"]

\* ------------------------------------------------------ JavaScript numbers
\* A JS number: NaN, Infinity or a finite integer.
Num(n) == [k |-> "num", v |-> n]
NaN == [k |-> "nan", v |-> 0]
Infinity == [k |-> "inf", v |-> 0]

\* Number(text) of a form field.
NumberOf(s) ==
  CASE s = "" -> Num(0)
    [] s = "0" -> Num(0)
    [] s = "-1" -> Num(-1)
    [] s = "1" -> Num(1)
    [] s = "2" -> Num(2)
    [] s = "3" -> Num(3)
    [] s = "1e2" -> Num(100)
    [] s = "Infinity" -> Infinity
    [] OTHER -> NaN

\* !x for a JS number.
NumFalsy(x) == x.k = "nan" \/ (x.k = "num" /\ x.v = 0)
\* x <= 0 for a JS number (false for NaN).
NumLeqZero(x) == x.k = "num" /\ x.v <= 0
\* x * n, n a positive integer.
NumTimes(x, n) == IF x.k = "num" THEN Num(x.v * n) ELSE x
\* n + x and x - n, n a finite integer.
NumPlus(n, x) == IF x.k = "num" THEN Num(n + x.v) ELSE x
NumMinus(x, n) == IF x.k = "num" THEN Num(x.v - n) ELSE x
\* !s for a JS string.
StrFalsy(s) == s = ""

\* ------------------------------------------------------------ form fields
\* The three fields are <input type="number">: the value the element hands
\* to onChange is the typed text when that is a valid floating-point number
\* (digits, optional sign, fraction and exponent, finite) and "" otherwise.
ValidFloat(text) == text \in {"-1", "0", "1", "2", "3", "1e2"}
NumberInputValue(text) == IF ValidFloat(text) THEN text ELSE ""
\* The browser submits a form (calls onSubmit) only when its field satisfies
\* its constraints: step="0.0001" for the amounts, min="0" step="1" for the
\* duration; an empty field satisfies them.
\* (The amounts of the model are whole numbers, all multiples of the step.)
AmountFieldValid(value) == value = "" \/ (NumberOf(value).v * 10000) % 1 = 0
DurationFieldValid(value) == value = "" \/ NumberOf(value).v >= 0

\* ------------------------------------------------------------ conversions
\* Atomic units per ether.  ethers uses 10^18; the model counts atomic
\* amounts in units of 10^16 wei so that they fit TLC's integers.
\* parseEther(text): the atomic amount, or a throw for text that is no
\* decimal number.
ParseEtherThrows(s) == s \in {"", "abc", "Infinity", "1e2"}
ParseEther(s) == NumberOf(s).v * 100
\* formatEther(atomic): <<whole part, fraction>>, the text "w.ff".
FormatEther(n) == <<n \div 100, n % 100>>
\* useState("0"): the balance text before any refresh (no fraction part).
InitialBalance == <<0>>

\* A failure text that would prefer the error's message to its reason.
ErrTextMessageFirst(e) ==
  IF e.message # "" THEN e.message
  ELSE IF e.reason # "" THEN e.reason
  ELSE "Unknown error"

\* err?.reason || err?.message || "Unknown error"
ErrText(e) ==
  IF e.reason # "" THEN e.reason
  ELSE IF e.message # "" THEN e.message
  ELSE "Unknown error"

\* The network label of connectWallet.
NetworkLabel(chainId) ==
  IF chainId = SEPOLIA_CHAIN_ID THEN <<"Sepolia", "">> ELSE <<"Chain: ", chainId>>

\* A switch that would have lost its "days" case.
DurationSecondsNoDays(valueNum, unit) ==
  CASE unit = "minutes" -> NumTimes(valueNum, 60)
    [] unit = "hours" -> NumTimes(valueNum, 60 * 60)
    [] OTHER -> valueNum

\* The seconds of a duration: the switch of handleExtendLock.
DurationSeconds(valueNum, unit) ==
  CASE unit = "minutes" -> NumTimes(valueNum, 60)
    [] unit = "hours" -> NumTimes(valueNum, 60 * 60)
    [] unit = "days" -> NumTimes(valueNum, 60 * 60 * 24)
    [] OTHER -> valueNum

\* ------------------------------------------------------------------ state
VARIABLES
  \* React state of App (useState, lines 10-17)
  walletAddress, network, balance, unlockTime, status, lastTxHash,
  \* the handler invocations: each an async function, suspended at an await
  tasks,
  \* the environment: window.ethereum, the clock, the contract, its transactions
  hasEthereum, now, chainBalance, chainUnlock, txs,
  \* page loads so far (window.location.reload)
  reloads

vars ==
  << walletAddress, network, balance, unlockTime, status, lastTxHash, tasks,
     hasEthereum, now, chainBalance, chainUnlock, txs, reloads >>

\* The React state as one value: what a handler step reads and writes.
Client ==
  [ walletAddress |-> walletAddress, network |-> network, balance |-> balance,
    unlockTime |-> unlockTime, status |-> status, lastTxHash |-> lastTxHash ]

\* The state of a fresh page: the useState initial values.
InitialClient ==
  [ walletAddress |-> "", network |-> <<"", "">>, balance |-> InitialBalance,
    unlockTime |-> 0, status |-> <<"", "">>, lastTxHash |-> 0 ]

\* A handler invocation that has not happened yet.
\*   input, unit, uCap: the state the closure captured on entry
\*   desiredEnd, arg, bal: locals of the handler
\*   accounts, chainId: what the provider answered (or announced)
\*   desiredEnd, arg, bal, unlock: locals of the handler and of its refresh
\*   hash: tx.hash; confirmed: tx.wait() has returned
\*   refreshes, refreshesAfter, providerCalls, ledgerReads, submits: what the
\*   invocation has called so far; sync: how its last refresh ended
\*   epoch, connected, uCache: the page load, whether a wallet address was
\*   set, on entry; the cached unlockTime when the extension was validated
IdleTask ==
  [ kind |-> "none", pc |-> "idle", input |-> "", unit |-> "", accounts |-> <<>>,
    chainId |-> "", uCap |-> 0, desiredEnd |-> Num(0), arg |-> Num(0), bal |-> 0,
    unlock |-> 0, hash |-> 0, confirmed |-> FALSE, outcome |-> "", sync |-> "",
    refreshes |-> 0, refreshesAfter |-> 0, providerCalls |-> FALSE,
    ledgerReads |-> FALSE, submits |-> FALSE, epoch |-> 0, connected |-> FALSE,
    uCache |-> 0 ]

\* The invocation of a handler: its record on entry.
NewTask(kind) ==
  [IdleTask EXCEPT !.kind = kind, !.pc = "entry", !.epoch = reloads,
                   !.connected = walletAddress \notin {"", "undefined"}]

Slots == 1 .. MaxOps
RefreshPcs == {"rf_signer", "rf_bal", "rf_unlock"}
OpPcs == {"signer", "submit", "wait"}
ConnectPcs == {"requestAccounts", "chainId"}
Running(t) == t.pc \in RefreshPcs \cup OpPcs \cup ConnectPcs
OpKinds == {"deposit", "withdraw", "extend"}

\* The slot of the next handler invocation.
HasFree == \E i \in Slots : tasks[i].pc = "idle"
Free == CHOOSE i \in Slots : tasks[i].pc = "idle" /\ \A j \in Slots : j < i => tasks[j].pc # "idle"

\* ---------------------------------------------------------- status strings
SyncErrorStatus == <<"Could not read contract data.", "">>
ConnectFailedStatus == <<"Failed to connect wallet.", "">>
NonIncreasingStatus == <<"New lock time must be later than the current unlock time.", "">>
InvalidStatus(kind) ==
  CASE kind = "deposit" -> <<"Enter a positive deposit amount.", "">>
    [] kind = "withdraw" -> <<"Enter a positive withdraw amount.", "">>
    [] OTHER -> <<"Enter a positive lock duration.", "">>
SendingStatus(kind) ==
  CASE kind = "deposit" -> <<"Sending deposit transaction...", "">>
    [] kind = "withdraw" -> <<"Sending withdraw transaction...", "">>
    [] OTHER -> <<"Sending extendLock transaction...", "">>
PendingStatus(kind) ==
  CASE kind = "deposit" -> <<"Deposit pending... waiting for confirmation.", "">>
    [] kind = "withdraw" -> <<"Withdraw pending... waiting for confirmation.", "">>
    [] OTHER -> <<"Extend lock pending... waiting for confirmation.", "">>
SuccessStatus(kind) ==
  CASE kind = "deposit" -> <<"Deposit successful!", "">>
    [] kind = "withdraw" -> <<"Withdraw successful!", "">>
    [] OTHER -> <<"Lock extended successfully!", "">>
FailedStatus(kind, e) ==
  CASE kind = "deposit" -> <<"Deposit failed: ", ErrText(e)>>
    [] kind = "withdraw" -> <<"Withdraw failed: ", ErrText(e)>>
    [] OTHER -> <<"Extend lock failed: ", ErrText(e)>>

\* ------------------------------------------------- steps of the handlers
\* A step takes the React state c and the invocation t and gives both back:
\* [c |-> ..., t |-> ...].  Code between two awaits runs without interruption,
\* so a step runs up to the next await or to the handler's return.

\* The handler returns.
Return(c, t, outcome) == [c |-> c, t |-> [t EXCEPT !.pc = "done", !.outcome = outcome]]

\* A catch that would resynchronize after a failure.
OpCatchRefreshes(c, t, e) ==
  [c |-> [c EXCEPT !.status = FailedStatus(t.kind, e)],
   t |-> [t EXCEPT !.pc = "rf_signer", !.outcome = "Failed", !.refreshes = @ + 1]]

\* A catch that would swallow a rejection of tx.wait() and go on waiting.
OpCatchKeepsWaiting(c, t, e) ==
  IF t.pc = "wait"
    THEN [c |-> c, t |-> t]
    ELSE Return([c EXCEPT !.status = FailedStatus(t.kind, e)], t, "Failed")

\* A catch that would forget the last transaction.
OpCatchClearsHash(c, t, e) ==
  Return([c EXCEPT !.status = FailedStatus(t.kind, e), !.lastTxHash = 0], t, "Failed")

\* catch (err) of handleDeposit, handleWithdraw, handleExtendLock.
OpCatch(c, t, e) ==
  Return([c EXCEPT !.status = FailedStatus(t.kind, e)], t, "Failed")

\* await getSignerAndContract() in a write handler: getProvider throws when
\* there is no window.ethereum, else provider.getSigner() is awaited.
SignerEnter(c, t) ==
  IF ~hasEthereum
    THEN OpCatch(c, t, NoProviderError)
    ELSE [c |-> c, t |-> [t EXCEPT !.pc = "signer", !.providerCalls = TRUE]]

\* handleExtendLock from the unit switch to getSignerAndContract: unlockTime
\* is the value of the render that created the handler (t.uCap).
ExtendCompute(c, t) ==
  LET valueNum == NumberOf(t.input)
      durationSeconds == DurationSeconds(valueNum, t.unit)
      desiredEnd == NumPlus(now, durationSeconds)
      additionalSeconds == NumMinus(desiredEnd, t.uCap)
      t1 == [t EXCEPT !.desiredEnd = desiredEnd, !.arg = additionalSeconds,
                      !.uCache = c.unlockTime]
  IN  IF NumLeqZero(additionalSeconds)
        THEN Return([c EXCEPT !.status = NonIncreasingStatus], t1, "NonIncreasingLock")
        ELSE SignerEnter([c EXCEPT !.status = SendingStatus("extend")], t1)

\* What the caller does once refreshOnChainData() has returned (it never
\* throws): handleExtendLock goes on when this was the refresh of line 141,
\* every other caller returns.
AfterRefresh(c, t) ==
  IF t.kind = "extend" /\ ~t.confirmed
    THEN ExtendCompute(c, t)
    ELSE Return(c, t, IF t.kind \in OpKinds THEN "Confirmed" ELSE "Returned")

\* A refreshOnChainData that would drop the session when a read fails.
RefreshCatchDisconnects(c, t) ==
  AfterRefresh([c EXCEPT !.status = SyncErrorStatus, !.walletAddress = ""],
               [t EXCEPT !.sync = "error"])

\* A refreshOnChainData whose failure would fail the operation it follows.
RefreshCatchFailsOperation(c, t) ==
  IF t.confirmed
    THEN Return([c EXCEPT !.status = FailedStatus(t.kind, [reason |-> "", message |-> "could not read contract data"])],
                [t EXCEPT !.sync = "error"], "Failed")
    ELSE AfterRefresh([c EXCEPT !.status = SyncErrorStatus], [t EXCEPT !.sync = "error"])

\* catch (err) of refreshOnChainData.
RefreshCatch(c, t) ==
  AfterRefresh([c EXCEPT !.status = SyncErrorStatus], [t EXCEPT !.sync = "error"])

\* A call of refreshOnChainData() up to its first await.
RefreshEnter(c, t) ==
  LET t1 == [t EXCEPT !.refreshes = @ + 1,
                      !.refreshesAfter = IF t.confirmed THEN @ + 1 ELSE @]
  IN  IF ~hasEthereum
        THEN RefreshCatch(c, t1)
        ELSE [c |-> c, t |-> [t1 EXCEPT !.pc = "rf_signer", !.providerCalls = TRUE]]

\* getSignerAndContract() has resolved in refreshOnChainData: getBalance is called.
RefreshSignerResolved(c, t) ==
  [c |-> c, t |-> [t EXCEPT !.pc = "rf_bal", !.ledgerReads = TRUE]]

\* A refresh that would publish the balance as soon as it is read.
RefreshBalanceResolvedWritesEarly(c, t, bal) ==
  [c |-> [c EXCEPT !.balance = FormatEther(bal)],
   t |-> [t EXCEPT !.pc = "rf_unlock", !.bal = bal]]

\* contract.getBalance() has resolved with bal: unlockTime() is called.
RefreshBalanceResolved(c, t, bal) ==
  [c |-> c, t |-> [t EXCEPT !.pc = "rf_unlock", !.bal = bal]]

\* contract.unlockTime() has resolved with unlock: both setters run.
RefreshUnlockResolved(c, t, unlock) ==
  AfterRefresh([c EXCEPT !.balance = FormatEther(t.bal), !.unlockTime = unlock],
               [t EXCEPT !.sync = "ok", !.unlock = unlock])

\* A guard that would reject the empty amount only.
AmountRejectedEmptyOnly(amount) == StrFalsy(amount)

\* The guard of handleDeposit / handleWithdraw: !amount || Number(amount) <= 0.
AmountRejected(amount) == StrFalsy(amount) \/ NumLeqZero(NumberOf(amount))

\* A guard that would reject negative durations only.
DurationRejectedNegativeOnly(value) == NumberOf(value).k = "num" /\ NumberOf(value).v < 0

\* The guard of handleExtendLock: !valueNum || valueNum <= 0.
DurationRejected(value) == NumFalsy(NumberOf(value)) \/ NumLeqZero(NumberOf(value))

\* A handler that would turn a request down while another operation is
\* between its submission path and its confirmation.
AmountEnterUnlessBusy(c, t) ==
  IF \E j \in Slots : tasks[j].pc \in OpPcs
    THEN Return(c, t, "Busy")
    ELSE IF AmountRejected(t.input)
      THEN Return([c EXCEPT !.status = InvalidStatus(t.kind)], t, "InvalidAmount")
      ELSE SignerEnter([c EXCEPT !.status = SendingStatus(t.kind)], t)

\* handleDeposit / handleWithdraw up to the first await.
AmountEnter(c, t) ==
  IF AmountRejected(t.input)
    THEN Return([c EXCEPT !.status = InvalidStatus(t.kind)], t, "InvalidAmount")
    ELSE SignerEnter([c EXCEPT !.status = SendingStatus(t.kind)], t)

\* handleExtendLock up to the first await.
ExtendEnter(c, t) ==
  IF DurationRejected(t.input)
    THEN Return([c EXCEPT !.status = InvalidStatus(t.kind)], t, "InvalidDuration")
    ELSE IF t.uCap = 0
      THEN RefreshEnter(c, t)
      ELSE ExtendCompute(c, t)

\* getSignerAndContract() has resolved in a write handler: the argument is
\* evaluated (parseEther throws on text that is no decimal number, the
\* contract call throws on a number that is no integer) and the contract
\* method is called.
OpSignerResolved(c, t) ==
  IF t.kind = "extend"
    THEN IF t.arg.k # "num"
           THEN OpCatch(c, t, InvalidValueError)
           ELSE [c |-> c, t |-> [t EXCEPT !.pc = "submit", !.submits = TRUE]]
    ELSE IF ParseEtherThrows(t.input)
           THEN OpCatch(c, t, InvalidValueError)
           ELSE [c |-> c, t |-> [t EXCEPT !.pc = "submit", !.submits = TRUE,
                                          !.arg = Num(ParseEther(t.input))]]

\* A handler that would not wait for the confirmation: it reports
\* success and refreshes as soon as the transaction is submitted.
OpSubmitResolvedNoWait(c, t, h) ==
  RefreshEnter([c EXCEPT !.lastTxHash = h, !.status = SuccessStatus(t.kind)],
               [t EXCEPT !.hash = h, !.confirmed = TRUE])

\* The contract method has resolved with the transaction of hash h:
\* setLastTxHash, setStatus, tx.wait() is called.
OpSubmitResolved(c, t, h) ==
  [c |-> [c EXCEPT !.lastTxHash = h, !.status = PendingStatus(t.kind)],
   t |-> [t EXCEPT !.pc = "wait", !.hash = h]]

\* tx.wait() has resolved: setStatus, refreshOnChainData() is called.
OpWaitResolved(c, t) ==
  RefreshEnter([c EXCEPT !.status = SuccessStatus(t.kind)], [t EXCEPT !.confirmed = TRUE])

\* connectWallet up to the first await.
ConnectEnter(c, t) ==
  IF ~hasEthereum
    THEN Return(c, t, "NoProvider")
    ELSE [c |-> c, t |-> [t EXCEPT !.pc = "requestAccounts", !.providerCalls = TRUE]]

\* accounts[0] of a list (undefined for an empty one).
FirstAccount(accounts) == IF Len(accounts) > 0 THEN accounts[1] ELSE "undefined"

\* eth_requestAccounts has resolved: setWalletAddress, eth_chainId is requested.
ConnectAccountsResolved(c, t, accounts) ==
  [c |-> [c EXCEPT !.walletAddress = FirstAccount(accounts)],
   t |-> [t EXCEPT !.pc = "chainId", !.accounts = accounts]]

\* A connectWallet that would refresh only on the expected network.
ConnectChainResolvedSepoliaOnly(c, t, chainId) ==
  IF chainId = SEPOLIA_CHAIN_ID
    THEN RefreshEnter([c EXCEPT !.network = NetworkLabel(chainId)], [t EXCEPT !.chainId = chainId])
    ELSE Return([c EXCEPT !.network = NetworkLabel(chainId)], [t EXCEPT !.chainId = chainId],
                "Returned")

\* eth_chainId has resolved: setNetwork, refreshOnChainData() is called.
ConnectChainResolved(c, t, chainId) ==
  RefreshEnter([c EXCEPT !.network = NetworkLabel(chainId)], [t EXCEPT !.chainId = chainId])

\* catch (err) of connectWallet.
ConnectCatch(c, t) ==
  Return([c EXCEPT !.status = ConnectFailedStatus], t, "ConnectionFailed")

\* A handleAccountsChanged that would refresh also for an empty list.
AccountsChangedAlwaysRefresh(c, t) ==
  RefreshEnter([c EXCEPT !.walletAddress = IF Len(t.accounts) > 0 THEN t.accounts[1] ELSE ""], t)

\* A handleAccountsChanged that would resynchronize without taking over the
\* new account.
AccountsChangedKeepsAddress(c, t) ==
  IF Len(t.accounts) > 0
    THEN RefreshEnter(c, t)
    ELSE Return([c EXCEPT !.walletAddress = ""], t, "Returned")

\* handleAccountsChanged(accounts).
AccountsChangedEnter(c, t) ==
  IF Len(t.accounts) > 0
    THEN RefreshEnter([c EXCEPT !.walletAddress = t.accounts[1]], t)
    ELSE Return([c EXCEPT !.walletAddress = ""], t, "Returned")

\* ------------------------------------------------------------ environment
\* The contract (the ledger): deposit adds the value sent, withdraw pays out
\* once the unlock time has passed, extendLock adds its argument to unlockTime.
CanWithdraw(amount) == now >= chainUnlock /\ amount <= chainBalance
BalanceAfter(tx) ==
  CASE tx.kind = "deposit" -> chainBalance + tx.arg
    [] tx.kind = "withdraw" -> chainBalance - tx.arg
    [] OTHER -> chainBalance
UnlockAfter(tx) ==
  IF tx.kind = "extend" THEN chainUnlock + tx.arg ELSE chainUnlock

\* A transaction as the chain holds it; its hash is its place in txs.
\* before, after, minedIn: the contract's unlockTime around its execution and
\* the page load during which it was executed.
NewTx(t) ==
  [kind |-> t.kind, arg |-> t.arg.v, state |-> "pending", before |-> 0, after |-> 0,
   minedIn |-> 0]

\* ---------------------------------------------------------------- actions
\* A step's result becomes the next state.
Apply(i, r) ==
  /\ walletAddress' = r.c.walletAddress
  /\ network' = r.c.network
  /\ balance' = r.c.balance
  /\ unlockTime' = r.c.unlockTime
  /\ status' = r.c.status
  /\ lastTxHash' = r.c.lastTxHash
  /\ tasks' = [tasks EXCEPT ![i] = r.t]

EnvUnchanged == UNCHANGED <<hasEthereum, now, chainBalance, chainUnlock, txs, reloads>>
ClientUnchanged ==
  UNCHANGED <<walletAddress, network, balance, unlockTime, status, lastTxHash>>

\* The "Connect Wallet" button: connectWallet().
ClickConnect ==
  /\ HasFree
  /\ Apply(Free, ConnectEnter(Client, NewTask("connect")))
  /\ EnvUnchanged

\* The "Refresh" button: refreshOnChainData().
ClickRefresh ==
  /\ HasFree
  /\ Apply(Free, RefreshEnter(Client, NewTask("refresh")))
  /\ EnvUnchanged

\* The deposit form: handleDeposit with depositAmount = amount.
SubmitDeposit ==
  /\ HasFree
  /\ \E text \in AmountInputs :
       LET amount == NumberInputValue(text)
       IN  /\ AmountFieldValid(amount)
           /\ Apply(Free, AmountEnter(Client, [NewTask("deposit") EXCEPT !.input = amount]))
  /\ EnvUnchanged

\* The withdraw form: handleWithdraw with withdrawAmount = amount.
SubmitWithdraw ==
  /\ HasFree
  /\ \E text \in AmountInputs :
       LET amount == NumberInputValue(text)
       IN  /\ AmountFieldValid(amount)
           /\ Apply(Free, AmountEnter(Client, [NewTask("withdraw") EXCEPT !.input = amount]))
  /\ EnvUnchanged

\* The extend form: handleExtendLock with lockDurationValue = value and
\* lockDurationUnit = unit; the closure holds the unlockTime of this render.
SubmitExtendLock ==
  /\ HasFree
  /\ \E text \in DurationInputs, unit \in SubmittedUnits :
       LET value == NumberInputValue(text)
       IN  /\ DurationFieldValid(value)
           /\ Apply(Free, ExtendEnter(Client, [NewTask("extend") EXCEPT !.input = value,
                                                                    !.unit = unit,
                                                                    !.uCap = unlockTime]))
  /\ EnvUnchanged

\* The provider's accountsChanged notification: handleAccountsChanged.
AccountsChanged ==
  /\ hasEthereum
  /\ HasFree
  /\ \E accounts \in AccountLists :
       Apply(Free, AccountsChangedEnter(Client, [NewTask("accounts") EXCEPT !.accounts = accounts]))
  /\ EnvUnchanged

\* Handlers that would survive the chain change: the state reset in
\* place, without a reload.
TasksSurviveReload == tasks

\* The tasks after window.location.reload(): the page's script is gone, no
\* suspended handler ever resumes.
TasksAfterReload ==
  [i \in Slots |-> IF Running(tasks[i]) THEN [tasks[i] EXCEPT !.pc = "killed"] ELSE tasks[i]]

\* The provider's chainChanged notification: handleChainChanged.
ChainChanged ==
  /\ hasEthereum
  /\ reloads < MaxReloads
  /\ reloads' = reloads + 1
  /\ walletAddress' = InitialClient.walletAddress
  /\ network' = InitialClient.network
  /\ balance' = InitialClient.balance
  /\ unlockTime' = InitialClient.unlockTime
  /\ status' = InitialClient.status
  /\ lastTxHash' = InitialClient.lastTxHash
  /\ tasks' = TasksAfterReload
  /\ UNCHANGED <<hasEthereum, now, chainBalance, chainUnlock, txs>>

\* eth_requestAccounts resolves.
ConnectAccountsOk(i) ==
  /\ tasks[i].pc = "requestAccounts"
  /\ \E accounts \in AccountLists : Apply(i, ConnectAccountsResolved(Client, tasks[i], accounts))
  /\ EnvUnchanged

\* eth_chainId resolves.
ConnectChainOk(i) ==
  /\ tasks[i].pc = "chainId"
  /\ \E chainId \in ChainIds : Apply(i, ConnectChainResolved(Client, tasks[i], chainId))
  /\ EnvUnchanged

\* A request of connectWallet rejects.
ConnectReject(i) ==
  /\ tasks[i].pc \in ConnectPcs
  /\ Apply(i, ConnectCatch(Client, tasks[i]))
  /\ EnvUnchanged

\* The awaits of refreshOnChainData resolve.
RefreshSignerOk(i) ==
  /\ tasks[i].pc = "rf_signer"
  /\ Apply(i, RefreshSignerResolved(Client, tasks[i]))
  /\ EnvUnchanged

RefreshBalanceOk(i) ==
  /\ tasks[i].pc = "rf_bal"
  /\ Apply(i, RefreshBalanceResolved(Client, tasks[i], chainBalance))
  /\ EnvUnchanged

RefreshUnlockOk(i) ==
  /\ tasks[i].pc = "rf_unlock"
  /\ Apply(i, RefreshUnlockResolved(Client, tasks[i], chainUnlock))
  /\ EnvUnchanged

\* An await of refreshOnChainData rejects.
RefreshReject(i) ==
  /\ tasks[i].pc \in RefreshPcs
  /\ Apply(i, RefreshCatch(Client, tasks[i]))
  /\ EnvUnchanged

\* The awaits of a write handler resolve.
OpSignerOk(i) ==
  /\ tasks[i].pc = "signer"
  /\ Apply(i, OpSignerResolved(Client, tasks[i]))
  /\ EnvUnchanged

OpSubmitOk(i) ==
  /\ tasks[i].pc = "submit"
  /\ Apply(i, OpSubmitResolved(Client, tasks[i], Len(txs) + 1))
  /\ txs' = Append(txs, NewTx(tasks[i]))
  /\ UNCHANGED <<hasEthereum, now, chainBalance, chainUnlock, reloads>>

OpWaitOk(i) ==
  /\ tasks[i].pc = "wait"
  /\ txs[tasks[i].hash].state = "confirmed"
  /\ Apply(i, OpWaitResolved(Client, tasks[i]))
  /\ EnvUnchanged

\* An await of a write handler rejects with e: the signer is refused, the
\* call is rejected or reverts, the transaction reverts or the connection
\* is lost while waiting.
OpReject(i) ==
  /\ tasks[i].pc \in OpPcs
  /\ \E e \in Errors : Apply(i, OpCatch(Client, tasks[i], e))
  /\ EnvUnchanged

\* The chain executes a pending transaction.
MineOk(h) ==
  /\ txs[h].state = "pending"
  /\ txs[h].kind = "withdraw" => CanWithdraw(txs[h].arg)
  /\ chainBalance' = BalanceAfter(txs[h])
  /\ chainUnlock' = UnlockAfter(txs[h])
  /\ txs' = [txs EXCEPT ![h].state = "confirmed", ![h].before = chainUnlock,
                         ![h].after = UnlockAfter(txs[h]), ![h].minedIn = reloads]
  /\ ClientUnchanged
  /\ UNCHANGED <<tasks, hasEthereum, now, reloads>>

\* The chain reverts a pending transaction (a require of the contract fails).
MineRevert(h) ==
  /\ txs[h].state = "pending"
  /\ txs' = [txs EXCEPT ![h].state = "reverted", ![h].minedIn = reloads]
  /\ ClientUnchanged
  /\ UNCHANGED <<tasks, hasEthereum, now, chainBalance, chainUnlock, reloads>>

Init ==
  /\ walletAddress = InitialClient.walletAddress
  /\ network = InitialClient.network
  /\ balance = InitialClient.balance
  /\ unlockTime = InitialClient.unlockTime
  /\ status = InitialClient.status
  /\ lastTxHash = InitialClient.lastTxHash
  /\ tasks = [i \in Slots |-> IdleTask]
  /\ hasEthereum \in BOOLEAN
  /\ now = StartTime
  /\ chainBalance \in {100}
  /\ chainUnlock \in {StartTime - 10, StartTime + 100}
  /\ txs = <<>>
  /\ reloads = 0

Next ==
  \/ ClickConnect
  \/ ClickRefresh
  \/ SubmitDeposit
  \/ SubmitWithdraw
  \/ SubmitExtendLock
  \/ AccountsChanged
  \/ ChainChanged
  \/ \E i \in Slots : ConnectAccountsOk(i)
  \/ \E i \in Slots : ConnectChainOk(i)
  \/ \E i \in Slots : ConnectReject(i)
  \/ \E i \in Slots : RefreshSignerOk(i)
  \/ \E i \in Slots : RefreshBalanceOk(i)
  \/ \E i \in Slots : RefreshUnlockOk(i)
  \/ \E i \in Slots : RefreshReject(i)
  \/ \E i \in Slots : OpSignerOk(i)
  \/ \E i \in Slots : OpSubmitOk(i)
  \/ \E i \in Slots : OpWaitOk(i)
  \/ \E i \in Slots : OpReject(i)
  \/ \E h \in 1 .. Len(txs) : MineOk(h)
  \/ \E h \in 1 .. Len(txs) : MineRevert(h)

Spec == Init /\ [][Next]_vars

\* ------------------------------------------------------------ properties
Started(t) == t.pc # "idle"
\* handleExtendLock has reached its comparison (line 164) in this invocation.
Validated(t) == t.kind = "extend" /\ Started(t) /\ t.desiredEnd # Num(0)
\* ... and went on to the submission path.
Proceeded(t) == Validated(t) /\ t.outcome # "NonIncreasingLock"
\* No call has left the page in this invocation.
NoNetworkCall(t) == ~t.providerCalls /\ ~t.ledgerReads /\ ~t.submits

\* C1: ExtendLock proceeds to submission iff desiredEnd D is strictly greater
\* than the cached unlockTimestamp U at validation time; with D <= U it ends
\* in NonIncreasingLock and no network call is made (finite D).
C1_ProceedsIffLater ==
  \A i \in Slots :
    (Validated(tasks[i]) /\ tasks[i].desiredEnd.k = "num") =>
      /\ Proceeded(tasks[i]) <=> tasks[i].desiredEnd.v > tasks[i].uCache
      /\ tasks[i].desiredEnd.v <= tasks[i].uCache =>
           (tasks[i].outcome = "NonIncreasingLock" /\ NoNetworkCall(tasks[i]))

\* The refresh of line 141 has run and succeeded, and the handler is past it
\* (t.unlock and t.sync are still those of that refresh).
PreRefreshed(t) ==
  /\ Validated(t)
  /\ t.uCap = 0
  /\ ~t.confirmed
  /\ t.sync = "ok"

\* C2: on a never-populated cache ExtendLock refreshes first and computes
\* additionalSeconds = desiredEnd - unlockTimestamp with the unlockTimestamp
\* this refresh put into the cache.
C2_UsesRefreshedUnlock ==
  \A i \in Slots :
    PreRefreshed(tasks[i]) =>
      tasks[i].arg = NumMinus(tasks[i].desiredEnd, tasks[i].unlock)

\* The task that submitted transaction h.
SubmittedBy(i, h) == tasks[i].kind = "extend" /\ tasks[i].hash = h

\* C3: once an ExtendLock is confirmed the contract's unlock time is the
\* now + duration computed at validation, and not earlier than it was before.
C3_LocksUntilDesiredEnd ==
  \A i \in Slots : \A h \in 1 .. Len(txs) :
    (SubmittedBy(i, h) /\ txs[h].state = "confirmed") =>
      /\ txs[h].after = tasks[i].desiredEnd.v
      /\ txs[h].after >= txs[h].before

\* C4: a withdraw or extend request made while no wallet is connected is
\* rejected locally, before any call to the wallet provider or the contract.
C4_DisconnectedRejectedLocally ==
  \A i \in Slots :
    (tasks[i].kind \in {"withdraw", "extend"} /\ Started(tasks[i]) /\ ~tasks[i].connected) =>
      /\ NoNetworkCall(tasks[i])
      /\ tasks[i].pc = "done"

\* No handler has been invoked since the last page load.
NothingSinceReload == \A i \in Slots : Started(tasks[i]) => tasks[i].epoch < reloads

\* C5: a chain change resets the session, the cache and the pending
\* operation at once; no handler of the page before it is still running,
\* and as long as no new handler is invoked the state stays the initial one,
\* whatever becomes of the transactions that were in flight.
C5_ChainChangeResets ==
  /\ \A i \in Slots : Running(tasks[i]) => tasks[i].epoch = reloads
  /\ (reloads > 0 /\ NothingSinceReload) => Client = InitialClient

\* A handler was awaiting its confirmation when the page was reloaded, and
\* its transaction was executed after the reload.
C5_Witness ==
  /\ reloads > 0
  /\ NothingSinceReload
  /\ Client = InitialClient
  /\ \E i \in Slots :
       /\ tasks[i].pc = "killed"
       /\ tasks[i].hash > 0
       /\ ~tasks[i].confirmed
       /\ txs[tasks[i].hash].state = "confirmed"
       /\ txs[tasks[i].hash].minedIn > tasks[i].epoch

\* Text that is empty, no finite number, zero or negative.
NotPositiveFinite(s) == s = "" \/ NumberOf(s).k # "num" \/ NumberOf(s).v <= 0

\* What the field hands over for a typed text: "" or a finite number.
FieldValueFinite(text) ==
  NumberInputValue(text) = "" \/ NumberOf(NumberInputValue(text)).k = "num"

RefreshReadFails(i) ==
  /\ tasks[i].pc \in {"rf_bal", "rf_unlock"}
  /\ tasks'[i].pc \notin RefreshPcs \cup {"killed"}
  /\ tasks'[i].sync = "error"

\* C8: when a read of a refresh fails, balance and unlockTime keep their
\* values and the status reports the sync error.
C8_FailedRefreshKeepsSnapshot ==
  [][\A i \in Slots :
       RefreshReadFails(i) =>
         /\ balance' = balance
         /\ unlockTime' = unlockTime
         /\ status' = SyncErrorStatus]_vars

\* The part of C8 about the snapshot alone.
C8_SnapshotRetained ==
  [][\A i \in Slots :
       RefreshReadFails(i) => (balance' = balance /\ unlockTime' = unlockTime)]_vars

\* C9 as stated: an operation that reaches Confirmed has run exactly one
\* refresh, the one after its confirmation.
C9_ExactlyOneRefresh ==
  \A i \in Slots :
    (tasks[i].kind \in OpKinds /\ tasks[i].confirmed /\ tasks[i].pc = "done") =>
      (tasks[i].refreshes = 1 /\ tasks[i].refreshesAfter = 1)

\* In this step the refresh after task i's confirmation reads the balance,
\* or reads the unlock time and replaces the snapshot.
PostRefreshReadsBalance(i) ==
  tasks[i].confirmed /\ tasks[i].pc = "rf_bal" /\ tasks'[i].pc = "rf_unlock"
PostRefreshWrites(i) ==
  tasks[i].confirmed /\ tasks[i].pc = "rf_unlock" /\ tasks'[i].pc = "done"
    /\ tasks'[i].sync = "ok"

\* C9 (amended): an operation starts no refresh after its submission until it
\* is confirmed and exactly one once it is; the snapshot this refresh
\* produces holds the balance and the unlock time the contract had when they
\* were read, both read after the operation's transaction was executed.
C9_OneRefreshAfterConfirmation ==
  /\ [](\A i \in Slots :
          tasks[i].kind \in OpKinds =>
            /\ tasks[i].refreshesAfter = (IF tasks[i].confirmed THEN 1 ELSE 0)
            /\ tasks[i].hash > 0 =>
                 tasks[i].refreshes = tasks[i].refreshesAfter
                                        + (IF tasks[i].kind = "extend" /\ tasks[i].uCap = 0
                                             THEN 1 ELSE 0))
  /\ [][\A i \in Slots :
          /\ PostRefreshReadsBalance(i) =>
               /\ txs[tasks[i].hash].state = "confirmed"
               /\ tasks'[i].bal = chainBalance
          /\ PostRefreshWrites(i) =>
               /\ txs[tasks[i].hash].state = "confirmed"
               /\ balance' = FormatEther(tasks[i].bal)
               /\ unlockTime' = chainUnlock]_vars

\* A confirmed deposit whose refresh has put the contract's new balance
\* into the snapshot.
C9_Witness ==
  \E i \in Slots :
    /\ tasks[i].kind = "deposit"
    /\ tasks[i].pc = "done"
    /\ tasks[i].confirmed
    /\ tasks[i].sync = "ok"
    /\ tasks[i].refreshes = 1
    /\ chainBalance = 200
    /\ balance = FormatEther(200)

\* connectWallet got both answers of the provider.
ConnectAnswered(t) == t.kind = "connect" /\ t.chainId # ""

\* C10 as stated: a refresh is started only by the Refresh button, by a
\* successful connect or by an operation reaching Confirmed.
C10_OnlyThreeTriggers ==
  \A i \in Slots :
    tasks[i].refreshes > 0 =>
      \/ tasks[i].kind = "refresh"
      \/ ConnectAnswered(tasks[i]) /\ Len(tasks[i].accounts) > 0
      \/ /\ tasks[i].kind \in OpKinds
         /\ tasks[i].confirmed
         /\ tasks[i].refreshes = tasks[i].refreshesAfter

\* The refreshes an invocation has started, by what has happened in it.
ExpectedRefreshes(t) ==
  CASE t.kind = "refresh" -> 1
    [] t.kind = "connect" -> IF ConnectAnswered(t) THEN 1 ELSE 0
    [] t.kind = "accounts" -> IF Len(t.accounts) > 0 THEN 1 ELSE 0
    [] t.kind \in {"deposit", "withdraw"} -> IF t.confirmed THEN 1 ELSE 0
    [] t.kind = "extend" ->
         (IF t.uCap = 0 /\ ~DurationRejected(t.input) THEN 1 ELSE 0)
           + (IF t.confirmed THEN 1 ELSE 0)
    [] OTHER -> 0

\* C10 (amended): a refresh is started by the Refresh button, by a connect
\* whose two provider requests were answered (also with an empty account
\* list), by an operation reaching Confirmed, by an accountsChanged
\* notification with a non-empty list and by ExtendLock when the cached
\* unlockTime is 0; by nothing else, and once each.
C10_RefreshTriggers ==
  \A i \in Slots : tasks[i].refreshes = ExpectedRefreshes(tasks[i])

\* An ExtendLock that refreshed before validating and again after its
\* confirmation, beside a refresh started by an accountsChanged notification.
C10_Witness ==
  \E i, j \in Slots :
    /\ tasks[i].kind = "extend" /\ tasks[i].refreshes = 2
    /\ tasks[j].kind = "accounts" /\ tasks[j].refreshes = 1

\* The session is Connected: an address is shown (walletAddress || "Not
\* connected", line 462).
SessionConnected(address) == address \notin {"", "undefined"}

\* In this step task i's refresh calls a contract read, or puts what it read
\* into balance and unlockTime.
RefreshReads(i) ==
  /\ tasks[i].pc \in {"rf_signer", "rf_bal"}
  /\ tasks'[i].pc \in {"rf_bal", "rf_unlock"}
  /\ tasks'[i].pc # tasks[i].pc
RefreshWrites(i) ==
  /\ tasks[i].pc = "rf_unlock" /\ tasks'[i] # tasks[i]
  /\ tasks'[i].sync = "ok" /\ tasks'[i].pc # "killed"

\* C11: no refresh reads the contract or replaces the snapshot while the
\* session is Disconnected.
C11_RefreshOnlyWhileConnected ==
  [][\A i \in Slots :
       (RefreshReads(i) \/ RefreshWrites(i)) => SessionConnected(walletAddress)]_vars

\* A connectWallet is between its first request and its last answer.
SessionConnecting == \E j \in Slots : tasks[j].kind = "connect" /\ tasks[j].pc \in ConnectPcs

\* In this step connectWallet is invoked as task i.
ConnectInvoked(i) == tasks[i].pc = "idle" /\ tasks'[i].kind = "connect"

\* C12: connect() while the session is Connecting or Connected is a no-op:
\* no request to the wallet provider, the React state is left as it was.
C12_ConnectWhileConnectedIsNoOp ==
  [][\A i \in Slots :
       (ConnectInvoked(i) /\ (SessionConnecting \/ SessionConnected(walletAddress))) =>
         /\ ~tasks'[i].providerCalls
         /\ Client' = Client]_vars

\* connectWallet got an empty account list, or one of its requests rejected.
ConnectUnsuccessful(t) ==
  /\ t.kind = "connect"
  /\ \/ t.outcome = "ConnectionFailed"
     \/ /\ t.pc \in {"chainId", "done"} \cup RefreshPcs
        /\ t.outcome # "NoProvider"
        /\ t.accounts = <<>>

\* C13: a connect that got an empty account list or a rejection sets no
\* address, starts no refresh and ends reporting ConnectionFailed.
C13_FailedConnectDisconnects ==
  /\ [](\A i \in Slots :
          ConnectUnsuccessful(tasks[i]) =>
            /\ tasks[i].refreshes = 0
            /\ tasks[i].pc = "done"
            /\ tasks[i].outcome = "ConnectionFailed")
  /\ [][\A i \in Slots :
          (tasks[i].kind = "connect" /\ ~ConnectUnsuccessful(tasks[i])
             /\ ConnectUnsuccessful(tasks'[i])) =>
            /\ ~SessionConnected(walletAddress')
            /\ status' = ConnectFailedStatus]_vars

\* connectWallet got a non-empty account list and the chain id.
ConnectSucceeded(t) == ConnectAnswered(t) /\ Len(t.accounts) > 0

\* In this step task i, not reloaded away, takes a step of its own.
Steps(i) == tasks'[i] # tasks[i] /\ tasks'[i].pc # "killed"

\* C14: a connect whose requests were answered with a non-empty list sets
\* the address to the first account and the network to the label of the
\* reported chain id, then starts a refresh, on whatever chain; its refresh
\* leaves address and network alone; a refresh request is never held back
\* by the chain id.
C14_ConnectSetsSessionThenRefreshes ==
  /\ [](\A i \in Slots :
          ConnectSucceeded(tasks[i]) =>
            (tasks[i].refreshes = 1 /\ tasks[i].providerCalls))
  /\ [][\A i \in Slots :
          /\ (tasks[i].pc = "requestAccounts" /\ tasks'[i].pc = "chainId"
                /\ Len(tasks'[i].accounts) > 0) =>
               walletAddress' = tasks'[i].accounts[1]
          /\ (tasks[i].pc = "chainId" /\ ConnectSucceeded(tasks'[i])) =>
               /\ network' = NetworkLabel(tasks'[i].chainId)
               /\ walletAddress' = walletAddress
               /\ tasks'[i].pc = "rf_signer"
          /\ (tasks[i].kind = "connect" /\ tasks[i].pc \in RefreshPcs /\ Steps(i)) =>
               (walletAddress' = walletAddress /\ network' = network)
          /\ (tasks[i].pc = "idle" /\ tasks'[i].kind = "refresh" /\ hasEthereum) =>
               tasks'[i].pc = "rf_signer"]_vars

\* A connect on another chain than Sepolia that has filled the snapshot, and
\* a later Refresh click that has read the contract as well.
C14_Witness ==
  \E i, j \in Slots :
    /\ tasks[i].kind = "connect" /\ tasks[i].pc = "done" /\ tasks[i].sync = "ok"
    /\ tasks[i].chainId = "0x1"
    /\ tasks[i].accounts = <<"0xB", "0xA">>
    /\ walletAddress = "0xB"
    /\ network = <<"Chain: ", "0x1">>
    /\ tasks[j].kind = "refresh" /\ tasks[j].pc = "done" /\ tasks[j].sync = "ok"
    /\ balance = FormatEther(chainBalance)

\* In this step handleAccountsChanged is invoked as task i.
AccountsInvoked(i) == tasks[i].pc = "idle" /\ tasks'[i].kind = "accounts"

\* C15: handleAccountsChanged with a non-empty list sets the address to the
\* first entry and starts a refresh; with an empty list it clears the
\* address, starts no refresh and calls nothing.
C15_AccountsChangedResyncs ==
  /\ [](\A i \in Slots :
          tasks[i].kind = "accounts" =>
            IF Len(tasks[i].accounts) > 0
              THEN tasks[i].refreshes = 1 /\ tasks[i].providerCalls
              ELSE /\ tasks[i].refreshes = 0
                   /\ tasks[i].pc = "done"
                   /\ NoNetworkCall(tasks[i]))
  /\ [][\A i \in Slots :
          AccountsInvoked(i) =>
            IF Len(tasks'[i].accounts) > 0
              THEN /\ walletAddress' = tasks'[i].accounts[1]
                   /\ tasks'[i].pc = "rf_signer"
                   /\ UNCHANGED <<network, balance, unlockTime, status, lastTxHash>>
              ELSE /\ walletAddress' = ""
                   /\ UNCHANGED <<network, balance, unlockTime, status, lastTxHash>>]_vars

\* The account was switched from 0xA to 0xB and the refresh this started has
\* replaced the snapshot.
C15_Witness ==
  \E i, j \in Slots :
    /\ tasks[i].kind = "connect" /\ tasks[i].accounts = <<"0xA">>
    /\ tasks[j].kind = "accounts" /\ tasks[j].accounts = <<"0xB", "0xA">>
    /\ tasks[j].pc = "done" /\ tasks[j].sync = "ok"
    /\ walletAddress = "0xB"
    /\ unlockTime = chainUnlock

\* In this step task i runs the part of connectWallet or of
\* handleAccountsChanged that precedes their refresh.
SessionStep(i) ==
  /\ Steps(i)
  /\ tasks'[i].kind \in {"connect", "accounts"}
  /\ tasks[i].pc \in {"idle"} \cup ConnectPcs

\* C16: the address and the network change only in a step of connectWallet,
\* of handleAccountsChanged or by the reload of handleChainChanged; no step
\* of a deposit, withdraw, extend or refresh changes them, however it ends.
C16_SessionChangedOnlyByConnectAndNotifications ==
  [][/\ (walletAddress' # walletAddress \/ network' # network) =>
          (reloads' # reloads \/ \E i \in Slots : SessionStep(i))
     /\ \A i \in Slots :
          (Steps(i) /\ (tasks'[i].kind \in OpKinds \cup {"refresh"}
                          \/ tasks[i].pc \in RefreshPcs)) =>
            (walletAddress' = walletAddress /\ network' = network)]_vars

\* A connected session that a failed withdraw has left as it was.
C16_Witness ==
  \E i, j \in Slots :
    /\ tasks[i].kind = "connect" /\ tasks[i].pc = "done" /\ tasks[i].chainId = SEPOLIA_CHAIN_ID
    /\ tasks[j].kind = "withdraw" /\ tasks[j].outcome = "Failed" /\ tasks[j].hash > 0
    /\ walletAddress = "0xA"
    /\ network = <<"Sepolia", "">>

\* In this step an awaited call of task i rejects: in its refresh, in
\* connectWallet, in a write handler.
RefreshRejects(i) ==
  /\ tasks[i].pc \in RefreshPcs
  /\ tasks'[i].pc \notin RefreshPcs \cup {"killed"}
  /\ tasks'[i].sync = "error"
ConnectRejects(i) == tasks[i].pc \in ConnectPcs /\ tasks'[i].outcome = "ConnectionFailed"
OpRejects(i) == tasks[i].pc \in OpPcs /\ tasks'[i].outcome = "Failed"

\* The status is the text of a failure.
ErrorStatus(st) ==
  \/ st \in {SyncErrorStatus, ConnectFailedStatus}
  \/ st[1] \in {"Deposit failed: ", "Withdraw failed: ", "Extend lock failed: "}

\* C17: every rejection of a provider or contract call ends the operation:
\* the handler returns and the status is the text of the failure.
C17_EveryFailureEndsOperation ==
  [][\A i \in Slots :
       (RefreshRejects(i) \/ ConnectRejects(i) \/ OpRejects(i)) =>
         (tasks'[i].pc = "done" /\ ErrorStatus(status'))]_vars

\* The same for every rejection but that of the refresh handleExtendLock
\* runs before its validation (line 141).
C17_ExceptPreValidationRefresh ==
  [][\A i \in Slots :
       ((RefreshRejects(i) /\ ~(tasks[i].kind = "extend" /\ ~tasks[i].confirmed))
          \/ ConnectRejects(i) \/ OpRejects(i)) =>
         (tasks'[i].pc = "done" /\ ErrorStatus(status'))]_vars

\* C18: a rejection in getSigner, in the submission or in the confirmation of
\* a deposit, withdraw or extend changes the status alone: address, network,
\* balance, unlockTime and lastTxHash stay, no refresh is started, the handler
\* has returned.
C18_FailureChangesOnlyStatus ==
  /\ [](\A i \in Slots :
          (tasks[i].kind \in OpKinds /\ tasks[i].outcome = "Failed") =>
            /\ tasks[i].pc = "done"
            /\ tasks[i].refreshesAfter = 0
            /\ ~tasks[i].confirmed)
  /\ [][\A i \in Slots :
          OpRejects(i) =>
            /\ UNCHANGED <<walletAddress, network, balance, unlockTime, lastTxHash>>
            /\ tasks'[i].refreshes = tasks[i].refreshes
            /\ \A j \in Slots : j # i => tasks'[j] = tasks[j]]_vars

\* After a connect has filled the snapshot a deposit was submitted and failed
\* while waiting for its confirmation: session and snapshot are still there.
C18_Witness ==
  \E i, j \in Slots :
    /\ tasks[i].kind = "connect" /\ tasks[i].pc = "done" /\ tasks[i].sync = "ok"
    /\ tasks[j].kind = "deposit" /\ tasks[j].outcome = "Failed" /\ tasks[j].hash > 0
    /\ status[1] = "Deposit failed: "
    /\ SessionConnected(walletAddress)
    /\ balance = FormatEther(100)
    /\ unlockTime = chainUnlock
    /\ lastTxHash = tasks[j].hash

\* C19: when the submission or the confirmation of a withdraw rejects with an
\* error that carries a revert reason, the handler ends in Failed and the
\* status is "Withdraw failed: " followed by exactly that reason.
C19_RevertReasonVerbatim ==
  [][\A i \in Slots : \A e \in Errors :
       (/\ tasks[i].kind = "withdraw"
        /\ tasks[i].pc \in {"submit", "wait"}
        /\ e.reason # ""
        /\ Apply(i, OpCatch(Client, tasks[i], e))) =>
         /\ status' = <<"Withdraw failed: ", e.reason>>
         /\ tasks'[i].outcome = "Failed"
         /\ tasks'[i].pc = "done"]_vars

\* A withdraw whose transaction the contract has reverted ended with the
\* contract's reason as status.
C19_Witness ==
  \E i \in Slots :
    /\ tasks[i].kind = "withdraw"
    /\ tasks[i].outcome = "Failed"
    /\ tasks[i].hash > 0
    /\ txs[tasks[i].hash].state = "reverted"
    /\ status = <<"Withdraw failed: ", "Funds are still locked">>

\* ------------------------------------------------- the duration conversion
\* handleExtendLock with a positive duration and any unit of the select, on
\* a cache that is empty or was filled by a refresh.
SubmitExtendLockAnyUnit ==
  /\ HasFree
  /\ \E text \in PositiveDurations, unit \in Units :
       LET value == NumberInputValue(text)
       IN  /\ DurationFieldValid(value)
           /\ Apply(Free, ExtendEnter(Client, [NewTask("extend") EXCEPT !.input = value,
                                                                    !.unit = unit,
                                                                    !.uCap = unlockTime]))
  /\ EnvUnchanged

DurationNext ==
  \/ SubmitExtendLockAnyUnit
  \/ ClickRefresh
  \/ \E i \in Slots : RefreshSignerOk(i)
  \/ \E i \in Slots : RefreshBalanceOk(i)
  \/ \E i \in Slots : RefreshUnlockOk(i)
  \/ \E i \in Slots : RefreshReject(i)

DurationSpec == Init /\ [][DurationNext]_vars

\* C20: for v > 0 the duration is v*60 seconds for minutes, v*3600 for hours,
\* v*86400 for days and v for seconds, and desiredEnd is now plus this value.
C20_DurationConversion ==
  \A i \in Slots :
    LET t == tasks[i]
        v == NumberOf(t.input).v
        seconds == CASE t.unit = "minutes" -> v * 60
                     [] t.unit = "hours" -> v * 3600
                     [] t.unit = "days" -> v * 86400
                     [] t.unit = "seconds" -> v
    IN  (Validated(t) /\ NumberOf(t.input).k = "num" /\ v > 0) =>
          /\ DurationSeconds(NumberOf(t.input), t.unit) = Num(seconds)
          /\ t.desiredEnd = Num(now + seconds)

\* Three days and two seconds have been converted and added to now.
C20_Witness ==
  \E i, j \in Slots :
    /\ tasks[i].unit = "days" /\ tasks[i].input = "3"
    /\ tasks[i].desiredEnd = Num(StartTime + 259200)
    /\ tasks[j].unit = "seconds" /\ tasks[j].input = "2"
    /\ tasks[j].desiredEnd = Num(StartTime + 2)

\* C21: the argument ExtendLock submits is desiredEnd minus the unlockTime
\* the snapshot holds when the extension is validated, and it is positive.
C21_SubmitsDifferenceToSnapshot ==
  \A i \in Slots :
    (tasks[i].kind = "extend" /\ tasks[i].submits) =>
      /\ tasks[i].arg = NumMinus(tasks[i].desiredEnd, tasks[i].uCache)
      /\ tasks[i].arg.v > 0

\* The same for the extensions that found the snapshot populated on entry.
C21_OnPopulatedCache ==
  \A i \in Slots :
    (tasks[i].kind = "extend" /\ tasks[i].submits /\ tasks[i].uCap # 0) =>
      /\ tasks[i].arg = NumMinus(tasks[i].desiredEnd, tasks[i].uCache)
      /\ tasks[i].arg.v > 0

\* Whatever it is computed from, the argument submitted is positive.
C21_ArgumentPositive ==
  \A i \in Slots : (tasks[i].kind = "extend" /\ tasks[i].submits) => tasks[i].arg.v > 0

\* Some operation is awaiting the confirmation of its transaction.
SomeAwaitingConfirmation == \E j \in Slots : tasks[j].pc = "wait"

\* C22: an operation awaiting its confirmation keeps no other from being
\* started; a request with a valid input goes on to the wallet provider
\* whatever the other handlers are doing (an extension may end before that
\* only because its new end is not later than the lock), and the transaction
\* an operation has submitted stays on the chain as submitted.
C22_OperationsOverlap ==
  /\ (SomeAwaitingConfirmation /\ HasFree) =>
       (ENABLED SubmitDeposit /\ ENABLED SubmitWithdraw /\ ENABLED SubmitExtendLock)
  /\ \A i \in Slots :
       /\ (tasks[i].kind \in {"deposit", "withdraw"} /\ Started(tasks[i])
             /\ ~AmountRejected(tasks[i].input) /\ hasEthereum) =>
            tasks[i].providerCalls
       /\ (tasks[i].kind = "extend" /\ Started(tasks[i])
             /\ ~DurationRejected(tasks[i].input) /\ hasEthereum) =>
            (tasks[i].providerCalls \/ tasks[i].outcome = "NonIncreasingLock")
       /\ (tasks[i].kind \in OpKinds /\ tasks[i].hash > 0) =>
            /\ tasks[i].hash <= Len(txs)
            /\ txs[tasks[i].hash].kind = tasks[i].kind
            /\ txs[tasks[i].hash].arg = tasks[i].arg.v
            /\ tasks[i].confirmed => txs[tasks[i].hash].state = "confirmed"

\* A deposit and an extension, started one while the other was under way,
\* await their confirmations together, and the chain has executed both.
C22_Witness ==
  \E i, j \in Slots :
    /\ tasks[i].kind = "deposit" /\ tasks[i].pc = "wait"
    /\ tasks[j].kind = "extend" /\ tasks[j].pc = "wait"
    /\ txs[tasks[i].hash].state = "confirmed"
    /\ txs[tasks[j].hash].state = "confirmed"
    /\ chainBalance = 200
    /\ chainUnlock = txs[tasks[j].hash].after

\* ------------------------------------------------------------ termination
\* The call handler i is suspended on resolves or rejects.
Resolve(i) ==
  \/ RefreshSignerOk(i) \/ RefreshBalanceOk(i) \/ RefreshUnlockOk(i) \/ RefreshReject(i)
  \/ OpSignerOk(i) \/ OpSubmitOk(i) \/ OpWaitOk(i) \/ OpReject(i)

\* The chain executes or reverts transaction h.
Mine(h) == h <= Len(txs) /\ (MineOk(h) \/ MineRevert(h))

\* Every call to the wallet provider and to the ledger eventually resolves:
\* the event loop resumes a handler whose promise has settled, and the chain
\* settles every transaction it was sent.
CallsResolve ==
  /\ \A i \in Slots : WF_vars(Resolve(i))
  /\ \A h \in 1 .. MaxOps : WF_vars(Mine(h))

\* The write operations, the chain and a chain change, with no connection
\* request and no account notification going on beside them.
LiveNext ==
  \/ SubmitDeposit
  \/ SubmitWithdraw
  \/ SubmitExtendLock
  \/ ChainChanged
  \/ \E i \in Slots : Resolve(i)
  \/ \E h \in 1 .. MaxOps : Mine(h)

LiveSpec == Init /\ [][LiveNext]_vars /\ CallsResolve

\* The operation of slot i has ended: its handler has returned, or the page
\* it ran in is gone.
Ended(i) == tasks[i].pc \in {"done", "killed"}

\* tx.wait() leaves handler i suspended until it settles: the handler goes
\* on when the transaction is confirmed, fails when the wait rejects, and
\* nothing else (no timer of this layer) moves it.
WaitsForConfirmation(i) ==
  (tasks[i].pc = "wait" /\ tasks'[i] # tasks[i]) =>
    \/ /\ txs[tasks[i].hash].state = "confirmed"
       /\ tasks'[i].confirmed
       /\ status' = SuccessStatus(tasks[i].kind)
    \/ /\ \E e \in Errors : status' = FailedStatus(tasks[i].kind, e)
       /\ tasks'[i].pc = "done" /\ tasks'[i].outcome = "Failed"
       /\ OpReject(i)
    \/ /\ reloads' = reloads + 1
       /\ tasks'[i].pc = "killed"

\* C23: when every call to the provider and to the ledger resolves, every
\* started deposit, withdrawal or extension ends, confirmed or failed (or
\* discarded with its page); and an operation awaiting its confirmation
\* leaves that state only when the wait settles, never by a timeout.
C23_OperationsTerminate ==
  /\ \A i \in Slots :
       (tasks[i].kind \in OpKinds /\ Started(tasks[i])) ~>
         (Ended(i) /\ (tasks[i].pc = "done" =>
            tasks[i].outcome \in {"Confirmed", "Failed", "InvalidAmount",
                                  "InvalidDuration", "NonIncreasingLock"}))
  /\ [][\A i \in Slots : WaitsForConfirmation(i)]_vars

\* One operation has ended confirmed while another still awaits the
\* confirmation of a transaction the chain has not executed.
C23_Witness ==
  \E i, j \in Slots :
    /\ tasks[i].kind \in OpKinds /\ tasks[i].pc = "done" /\ tasks[i].outcome = "Confirmed"
    /\ tasks[j].kind \in OpKinds /\ tasks[j].pc = "wait"
    /\ txs[tasks[j].hash].state = "pending"

\* ------------------------------------------------ progress of an operation
\* Where the operation of handler invocation t stands: it is validated up
\* to getSignerAndContract (with the refresh of line 141 for an extension),
\* submitted up to tx.wait(), confirmed once tx.wait() has returned, failed
\* when the handler returned without that; a reload discards it.
Phase(t) ==
  CASE t.pc = "idle" -> "None"
    [] t.pc = "killed" -> "Discarded"
    [] t.pc = "done" -> IF t.outcome = "Confirmed" THEN "Confirmed" ELSE "Failed"
    [] t.pc = "wait" -> "AwaitingConfirmation"
    [] t.pc \in {"signer", "submit"} -> "Submitting"
    [] OTHER -> IF t.confirmed THEN "Confirmed" ELSE "Validating"

Rank(phase) ==
  CASE phase = "None" -> 0
    [] phase = "Validating" -> 1
    [] phase = "Submitting" -> 2
    [] phase = "AwaitingConfirmation" -> 3
    [] OTHER -> 4

\* C24: an operation only moves forward, Validating, Submitting,
\* AwaitingConfirmation, then Confirmed or Failed; a confirmed or failed
\* operation stays what it is, also when the refresh after the confirmation
\* fails (only a reload discards it).
C24_StatusMovesForward ==
  [][\A i \in Slots :
       LET p == Phase(tasks[i])
           q == Phase(tasks'[i])
       IN  /\ (tasks'[i].kind \in OpKinds /\ q # p /\ q # "Discarded") =>
                /\ p \notin {"Confirmed", "Failed"}
                /\ Rank(q) > Rank(p)
                /\ q = "Confirmed" => p = "AwaitingConfirmation"
                /\ q = "AwaitingConfirmation" => p = "Submitting"
                /\ q = "Submitting" => p \in {"None", "Validating"}
                /\ q = "Validating" => p = "None"
           /\ (tasks[i].kind \in OpKinds /\ tasks[i].confirmed) =>
                (tasks'[i].confirmed /\ tasks'[i].outcome # "Failed")
           /\ (tasks[i].kind \in OpKinds /\ tasks[i].pc = "done") => tasks'[i] = tasks[i]
    ]_vars

\* A confirmed operation whose follow-up refresh failed: the handler has
\* returned, the operation is confirmed, the status tells of the read.
C24_Witness ==
  \E i \in Slots :
    /\ tasks[i].kind \in OpKinds /\ tasks[i].pc = "done"
    /\ tasks[i].confirmed /\ tasks[i].sync = "error"
    /\ Phase(tasks[i]) = "Confirmed"
    /\ status = SyncErrorStatus

\* ------------------------------------------------------------ the snapshot
\* The page is reloaded: the snapshot is the initial one again.
SnapshotReset ==
  /\ reloads' = reloads + 1
  /\ balance' = InitialBalance
  /\ unlockTime' = 0

\* C25: balance and unlockTime are always the pair one refresh has read:
\* they are replaced together, by the refresh that read both, and a
\* refresh that has read the balance only shows nothing of it.
C25_SnapshotWrittenWhole ==
  [][/\ (balance' # balance \/ unlockTime' # unlockTime) =>
          \/ SnapshotReset
          \/ \E i \in Slots :
               /\ RefreshWrites(i)
               /\ balance' = FormatEther(tasks[i].bal)
               /\ unlockTime' = tasks'[i].unlock
     /\ \A i \in Slots :
          RefreshWrites(i) =>
            (balance' = FormatEther(tasks[i].bal) /\ unlockTime' = tasks'[i].unlock)
    ]_vars

\* A refresh has replaced the snapshot while another one, which has read a
\* different balance, still waits for unlockTime().
C25_Witness ==
  \E i, j \in Slots :
    /\ tasks[i].sync = "ok" /\ tasks[i].pc = "done"
    /\ balance = FormatEther(tasks[i].bal) /\ unlockTime = tasks[i].unlock
    /\ tasks[j].pc = "rf_unlock"
    /\ FormatEther(tasks[j].bal) # balance

\* -------------------------------------------------------- displayed status
\* The operation of slot i has been superseded: a later operation has been
\* started (handlers take the slots in the order they are invoked).
Superseded(i) ==
  /\ tasks[i].kind \in OpKinds /\ Started(tasks[i])
  /\ \E j \in Slots : j > i /\ tasks[j].kind \in OpKinds /\ Started(tasks[j])

\* C26: the displayed status is that of the operation started last: no step
\* of a superseded operation (its submission, confirmation, failure or
\* follow-up refresh) changes the status.
C26_SupersededKeepsOff ==
  [][\A i \in Slots : (Superseded(i) /\ Steps(i)) => status' = status]_vars

\* ------------------------------------------------- last transaction handle
\* The contract call of handler i returns a transaction (a handle).
SubmissionReturns(i) ==
  /\ tasks[i].pc = "submit" /\ tasks'[i].pc = "wait"
  /\ Len(txs') = Len(txs) + 1
  /\ tasks'[i].hash = Len(txs')

\* C27 as stated: lastTxHash changes only when a submission returns a
\* handle, and is then the handle of that, the latest, submission.
C27_ChangedOnlyBySubmission ==
  [][/\ lastTxHash' # lastTxHash => \E i \in Slots : SubmissionReturns(i)
     /\ \A i \in Slots : SubmissionReturns(i) => lastTxHash' = Len(txs')
    ]_vars

\* C27: lastTxHash changes only when a submission returns a handle, and is
\* then the handle of that, the latest, submission, or when a chain change
\* reloads the page, which clears it; failed validations, rejected
\* submissions, reverts, refreshes and account changes leave it alone.
C27_ChangedBySubmissionOrReload ==
  [][/\ lastTxHash' # lastTxHash =>
          \/ \E i \in Slots : SubmissionReturns(i)
          \/ reloads' = reloads + 1 /\ lastTxHash' = 0
     /\ \A i \in Slots : SubmissionReturns(i) => lastTxHash' = Len(txs')
    ]_vars

\* The handle of the second submission is still exposed after that
\* transaction has reverted and its handler has failed.
C27_Witness ==
  \E i, j \in Slots :
    /\ tasks[j].hash = 1
    /\ tasks[i].hash = 2 /\ tasks[i].pc = "done" /\ tasks[i].outcome = "Failed"
    /\ txs[2].state = "reverted"
    /\ lastTxHash = 2

\* ------------------------------------------------------ overlapping refreshes
\* Every handler started has returned, every refresh has succeeded, the
\* page was never reloaded.
AllRefreshesCompleted ==
  /\ reloads = 0
  /\ \A i \in Slots : Started(tasks[i]) => tasks[i].pc = "done"
  /\ \A i \in Slots : tasks[i].refreshes > 0 => tasks[i].sync = "ok"

\* Every transaction is settled, and each one the chain has executed has
\* been seen confirmed by the handler that submitted it; there is one.
WritesConfirmed ==
  /\ \E i \in Slots : tasks[i].kind \in OpKinds /\ tasks[i].confirmed
  /\ \A h \in 1 .. Len(txs) :
       /\ txs[h].state # "pending"
       /\ txs[h].state = "confirmed" =>
            \E i \in Slots : tasks[i].hash = h /\ tasks[i].confirmed

\* C28: once all refreshes have completed, the snapshot holds what the
\* contract holds since the last confirmed write of this client (nothing
\* has changed the contract since): no refresh started before a later one
\* has put older values over it.
C28_SnapshotCurrentAfterRefreshes ==
  (AllRefreshesCompleted /\ WritesConfirmed) =>
    (balance = FormatEther(chainBalance) /\ unlockTime = chainUnlock)

\* The first part alone, for two requested refreshes: the one started first
\* writes nothing once the one started after it has written.
C28_EarlierNeverOverwrites ==
  [][\A i, j \in Slots :
       (/\ i < j
        /\ tasks[i].kind = "refresh" /\ tasks[j].kind = "refresh"
        /\ tasks[j].pc = "done" /\ tasks[j].sync = "ok"
        /\ tasks[j].epoch = reloads) => ~RefreshWrites(i)]_vars

\* The refresh handleExtendLock ran for an empty cache has failed (and the
\* extension has not got as far as a confirmation since).
PreRefreshFailed(t) ==
  /\ t.kind = "extend" /\ t.uCap = 0
  /\ t.refreshes = 1 /\ t.sync = "error" /\ ~t.confirmed

\* C29: an extension whose refresh for a never-populated cache failed does
\* not call extendLock.
C29_FailedRefreshBlocksSubmission ==
  \A i \in Slots : PreRefreshFailed(tasks[i]) => ~tasks[i].submits

====
